---- MODULE Spec2Model ----
(***************************************************************************)
(* Model of backend/auth/index.py: the `handler` entry point of the        *)
(* account service (register, login, profile) and the two tables it uses,  *)
(* users and game_stats.                                                   *)
(*                                                                         *)
(* Several invocations of `handler` run concurrently, one per worker.      *)
(* Every invocation owns its connection, cursor and local variables; the   *)
(* only shared state is the database.  The handler is cut into steps at    *)
(* its database statements: what runs between two statements touches only  *)
(* the invocation's own locals and is part of the step that precedes it.   *)
(*                                                                         *)
(* The database is PostgreSQL under its default READ COMMITTED isolation:  *)
(* a statement sees the committed rows and the rows of its own             *)
(* transaction; an INSERT whose key collides with an uncommitted row of    *)
(* another transaction waits until that transaction ends; closing a        *)
(* connection discards its uncommitted rows.                               *)
(***************************************************************************)
EXTENDS Integers, FiniteSets, Sequences, TLC

\* ---------------------------------------------------------------- bounds
NumWorkers == 2          \* concurrent invocations of handler
MaxRequests == 2         \* requests served in one behaviour
MaxUserId == 1           \* largest userId a profile request asks for

Workers == 1..NumWorkers

\* ------------------------------------------------------------ input values
None == "None"                         \* Python None / absent JSON key
Names == {"alice", "bob"}
Secrets == {"secret1", "wrong"}
\* The (username, password) pairs of register and login requests: every pair
\* of a name and a secret, and one pair for each way validation can fail.
CredentialInputs ==
    (Names \X Secrets)
    \cup {<<None, "secret1">>, <<"", "secret1">>, <<"alice", None>>, <<"alice", "">>,
          <<None, None>>}
\* A userId is kept as a set of at most one integer: {} is None (the key is
\* absent), {i} is the integer i.  `u.id = NULL` matches no row.
UserIdInputs == {{}} \cup {{i} : i \in 1..MaxUserId}

DefaultBalance == 1000

\* column default of kills, deaths, wins, losses
StatDefault == 0

\* hashlib.sha256(password.encode()).hexdigest(): a deterministic digest.
\* The digest is kept symbolic; distinct passwords of the bounded input set
\* have distinct digests, and a digest is never equal to a password.
hash_password(password) == <<"sha256", password>>

\* `x is None` in place of `not x`: the empty string passes
FalsyNoneOnly(x) == x = None

\* `not x` for a value that is None or a string
Falsy(x) == x = None \/ x = ""

\* ---------------------------------------------------------------- requests
Request(m, ok, a, u, w, i) ==
    [method |-> m, json |-> ok, action |-> a, username |-> u, password |-> w, userId |-> i]

NoRequest == Request(None, FALSE, None, None, None, {})

\* The events the handler is invoked with.  Fields the handler does not read
\* for the given method and action are left at None.
Requests ==
    {Request("OPTIONS", FALSE, None, None, None, {})}
    \cup {Request("GET", FALSE, None, None, None, {})}
    \cup {Request("POST", FALSE, None, None, None, {})}
    \cup {Request("POST", TRUE, a, c[1], c[2], {}) :
            a \in {"register", "login"}, c \in CredentialInputs}
    \cup {Request("POST", TRUE, "profile", None, None, i) : i \in UserIdInputs}
    \cup {Request("POST", TRUE, None, None, None, {})}

\* --------------------------------------------------------------- responses
JsonHeaders == [ContentType |-> "application/json", AllowOrigin |-> "*"]

CorsHeaders == [AllowOrigin |-> "*", AllowMethods |-> "GET, POST, OPTIONS",
                AllowHeaders |-> "Content-Type, X-User-Id", MaxAge |-> "86400"]

Response(status, body) ==
    [kind |-> "returned", statusCode |-> status, headers |-> JsonHeaders, body |-> body]

\* the handler ends by an exception that leaves it
Raised(err) == [kind |-> "raised", error |-> err]

NoResponse == [kind |-> "none"]

OptionsResponse ==
    [kind |-> "returned", statusCode |-> 200, headers |-> CorsHeaders, body |-> [text |-> ""]]

MethodNotAllowed == Response(405, [error |-> "Method not allowed"])
BadRequest == Response(400, [error |-> "Username and password required"])
Unauthorized == Response(401, [error |-> "Invalid credentials"])
NotFound == Response(404, [error |-> "User not found"])
Conflict == Response(409, [error |-> "Username already exists"])

UserView(row) == [id |-> row.id, username |-> row.username, balance |-> row.balance]

Success(userBody) == Response(200, [success |-> TRUE, user |-> userBody])

\* ------------------------------------------------------------------- state
VARIABLES
    users,       \* committed rows of table users
    game_stats,  \* committed rows of table game_stats
    users_id_seq,\* next value of the sequence behind users.id
    pc,          \* per worker: where its invocation of handler stands
    req,         \* per worker: the event being handled
    conn,        \* per worker: "none", "open" or "closed"
    txnUsers,    \* per worker: uncommitted users rows of its transaction
    txnStats,    \* per worker: uncommitted game_stats rows of its transaction
    user,        \* per worker: local `user`, {} or {row}
    resp,        \* per worker: what the invocation ended with
    seen,        \* per worker: the committed tables its SELECT read, {} or {store}
    served       \* number of invocations started

vars == <<users, game_stats, users_id_seq, pc, req, conn, txnUsers, txnStats, user, resp, seen, served>>

store == <<users, game_stats>>

\* The databases a behaviour starts from: the empty one, and the one a
\* completed register of ("alice", "secret1") leaves behind.
EmptyStore == [users |-> {}, game_stats |-> {}, seq |-> 1]

AliceStore ==
    [users |-> {[id |-> 1, username |-> "alice",
                 password |-> hash_password("secret1"), balance |-> DefaultBalance]},
     game_stats |-> {[user_id |-> 1, kills |-> StatDefault, deaths |-> StatDefault,
                      wins |-> StatDefault, losses |-> StatDefault]},
     seq |-> 2]

InitialStores == {EmptyStore, AliceStore}

Init ==
    /\ \E db \in InitialStores :
        /\ users = db.users
        /\ game_stats = db.game_stats
        /\ users_id_seq = db.seq
    /\ pc = [p \in Workers |-> "idle"]
    /\ req = [p \in Workers |-> NoRequest]
    /\ conn = [p \in Workers |-> "none"]
    /\ txnUsers = [p \in Workers |-> {}]
    /\ txnStats = [p \in Workers |-> {}]
    /\ user = [p \in Workers |-> {}]
    /\ resp = [p \in Workers |-> NoResponse]
    /\ seen = [p \in Workers |-> {}]
    /\ served = 0
\* a users table without the unique index
UsernameNeverTaken(u) == FALSE

\* ------------------------------------------------------------ the database
\* The unique index on users.username, against the committed rows.
UsernameTaken(u) == \E row \in users : row.username = u
\* an index that does not wait for the uncommitted rows of other transactions
NeverLocked(p, u) == FALSE

\* Another transaction holds an uncommitted users row with this username:
\* the INSERT waits for that transaction to end.
LockedByOther(p, u) ==
    \E q \in Workers \ {p} : \E row \in txnUsers[q] : row.username = u

\* VALUES (username, hashed_pw, 1000), id from the sequence
NewUserRow(u, w) ==
    [id |-> users_id_seq, username |-> u, password |-> hash_password(w),
     balance |-> DefaultBalance]

\* INSERT INTO game_stats (user_id): the counters take the column default.
NewStatsRow(id) ==
    [user_id |-> id, kills |-> StatDefault, deaths |-> StatDefault,
     wins |-> StatDefault, losses |-> StatDefault]
\* the login query given the password itself instead of its digest
LoginRowsPlainPassword(u, w) ==
    {UserView(row) : row \in {x \in users : x.username = u /\ x.password = w}}

\* the login query without its password condition
LoginRowsAnyPassword(u, w) ==
    {UserView(row) : row \in {x \in users : x.username = u}}

\* SELECT id, username, balance FROM users WHERE username = u AND password = hash
LoginRows(u, w) ==
    {UserView(row) : row \in {x \in users : x.username = u /\ x.password = hash_password(w)}}

\* One row of the profile query.  g is the set of the game_stats rows joined
\* to u, {} when there is none; a column is the set of its values, so the
\* NULL produced by the left join is {}.
ProfileRow(u, g) ==
    [id |-> u.id, username |-> u.username, balance |-> u.balance,
     kills |-> {x.kills : x \in g}, deaths |-> {x.deaths : x \in g},
     wins |-> {x.wins : x \in g}, losses |-> {x.losses : x \in g}]
\* the profile query with JOIN in place of LEFT JOIN
ProfileRowsInnerJoin(i) ==
    UNION {{ProfileRow(u, {g}) : g \in {x \in game_stats : x.user_id = u.id}}
           : u \in {x \in users : x.id \in i}}

\* users u LEFT JOIN game_stats g ON u.id = g.user_id WHERE u.id = i
ProfileRows(i) ==
    UNION {
        LET joined == {g \in game_stats : g.user_id = u.id} IN
            IF joined = {} THEN {ProfileRow(u, {})}
            ELSE {ProfileRow(u, {g}) : g \in joined}
        : u \in {x \in users : x.id \in i}}

\* ----------------------------------------------------------------- helpers
\* The invocation of worker p starts with event r.
Invoke(p, r) ==
    /\ pc[p] = "idle"
    /\ served < MaxRequests
    /\ req' = [req EXCEPT ![p] = r]
    /\ served' = served + 1

\* The invocation ends with outcome out; c is the state of its connection.
\* A transaction still open when the connection goes away is discarded.
Finish(p, out, c) ==
    /\ pc' = [pc EXCEPT ![p] = "done"]
    /\ resp' = [resp EXCEPT ![p] = out]
    /\ conn' = [conn EXCEPT ![p] = c]
    /\ txnUsers' = [txnUsers EXCEPT ![p] = {}]
    /\ txnStats' = [txnStats EXCEPT ![p] = {}]

\* The request reaches a database statement (lines 51-62, 90-101, 129-130).
NeedsStatement(r) ==
    /\ r.method = "POST"
    /\ r.json
    /\ \/ r.action \in {"register", "login"} /\ ~Falsy(r.username) /\ ~Falsy(r.password)
       \/ r.action = "profile"

\* ----------------------------------------------------------------- actions
\* method == 'OPTIONS': the CORS pre-flight answer, no connection.
Options(p) ==
    /\ pc[p] = "idle" /\ served < MaxRequests
    /\ \E r \in Requests :
        /\ r.method = "OPTIONS"
        /\ Invoke(p, r)
        /\ Finish(p, OptionsResponse, "none")
        /\ UNCHANGED <<users, game_stats, users_id_seq, user, seen>>

\* Neither OPTIONS nor POST: falls to the final return.
NotPost(p) ==
    /\ pc[p] = "idle" /\ served < MaxRequests
    /\ \E r \in Requests :
        /\ r.method \notin {"OPTIONS", "POST"}
        /\ Invoke(p, r)
        /\ Finish(p, MethodNotAllowed, "none")
        /\ UNCHANGED <<users, game_stats, users_id_seq, user, seen>>

\* json.loads / body_data.get raise before a connection exists.
BodyError(p) ==
    /\ pc[p] = "idle" /\ served < MaxRequests
    /\ \E r \in Requests :
        /\ r.method = "POST" /\ ~r.json
        /\ Invoke(p, r)
        /\ Finish(p, Raised("ValueError"), "none")
        /\ UNCHANGED <<users, game_stats, users_id_seq, user, seen>>

\* register / login with a missing or empty username or password: 400 from
\* inside the try block, the finally clause closes cursor and connection.
Validation(p) ==
    /\ pc[p] = "idle" /\ served < MaxRequests
    /\ \E r \in Requests :
        /\ r.method = "POST" /\ r.json
        /\ r.action \in {"register", "login"}
        /\ Falsy(r.username) \/ Falsy(r.password)
        /\ Invoke(p, r)
        /\ Finish(p, BadRequest, "closed")
        /\ UNCHANGED <<users, game_stats, users_id_seq, user, seen>>

\* An action that is none of register, login, profile: no branch of the try
\* block runs, finally closes the connection, the final return answers 405.
UnknownAction(p) ==
    /\ pc[p] = "idle" /\ served < MaxRequests
    /\ \E r \in Requests :
        /\ r.method = "POST" /\ r.json
        /\ r.action \notin {"register", "login", "profile"}
        /\ Invoke(p, r)
        /\ Finish(p, MethodNotAllowed, "closed")
        /\ UNCHANGED <<users, game_stats, users_id_seq, user, seen>>

\* A request that will issue a statement: connection and cursor are open and
\* the invocation stands before its first cur.execute.
Begin(p) ==
    /\ pc[p] = "idle" /\ served < MaxRequests
    /\ \E r \in Requests :
        /\ NeedsStatement(r)
        /\ Invoke(p, r)
        /\ pc' = [pc EXCEPT ![p] = "try"]
        /\ conn' = [conn EXCEPT ![p] = "open"]
        /\ UNCHANGED <<users, game_stats, users_id_seq, txnUsers, txnStats, user, resp, seen>>

\* get_db_connection() raises: nothing was acquired.
ConnectFails(p) ==
    /\ pc[p] = "idle" /\ served < MaxRequests
    /\ \E r \in Requests :
        /\ r.method = "POST" /\ r.json
        /\ Invoke(p, r)
        /\ Finish(p, Raised("OperationalError"), "none")
        /\ UNCHANGED <<users, game_stats, users_id_seq, user, seen>>

\* conn.cursor() raises.  The call stands before the try block, so the
\* finally clause does not run and nothing closes the connection.
CursorFails(p) ==
    /\ pc[p] = "idle" /\ served < MaxRequests
    /\ \E r \in Requests :
        /\ r.method = "POST" /\ r.json
        /\ Invoke(p, r)
        /\ Finish(p, Raised("InterfaceError"), "open")
        /\ UNCHANGED <<users, game_stats, users_id_seq, user, seen>>

\* INSERT INTO users ... RETURNING id, username, balance, when the unique
\* index on username accepts the row.  The row stays private to the
\* transaction until the commit.
InsertUser(p) ==
    /\ pc[p] = "try"
    /\ req[p].action = "register"
    /\ ~LockedByOther(p, req[p].username)
    /\ ~UsernameTaken(req[p].username)
    /\ LET row == NewUserRow(req[p].username, req[p].password) IN
        /\ txnUsers' = [txnUsers EXCEPT ![p] = {row}]
        /\ user' = [user EXCEPT ![p] = {UserView(row)}]
    /\ users_id_seq' = users_id_seq + 1
    /\ pc' = [pc EXCEPT ![p] = "inserted"]
    /\ UNCHANGED <<users, game_stats, req, conn, txnStats, resp, served, seen>>

\* The same INSERT when a committed row holds the username: UniqueViolation,
\* caught at line 154: rollback, 409, then the finally clause.
InsertUserConflict(p) ==
    /\ pc[p] = "try"
    /\ req[p].action = "register"
    /\ ~LockedByOther(p, req[p].username)
    /\ UsernameTaken(req[p].username)
    /\ users_id_seq' = users_id_seq + 1
    /\ Finish(p, Conflict, "closed")
    /\ UNCHANGED <<users, game_stats, req, user, served, seen>>

\* conn.commit() at line 69: the users row becomes visible to everyone.
CommitUser(p) ==
    /\ pc[p] = "inserted"
    /\ users' = users \cup txnUsers[p]
    /\ txnUsers' = [txnUsers EXCEPT ![p] = {}]
    /\ pc' = [pc EXCEPT ![p] = "committed"]
    /\ UNCHANGED <<game_stats, users_id_seq, req, conn, txnStats, user, resp, served, seen>>

\* INSERT INTO game_stats (user_id) at line 71, in a second transaction.
InsertStats(p) ==
    /\ pc[p] = "committed"
    /\ txnStats' = [txnStats EXCEPT ![p] = {NewStatsRow(u.id) : u \in user[p]}]
    /\ pc' = [pc EXCEPT ![p] = "stats_inserted"]
    /\ UNCHANGED <<users, game_stats, users_id_seq, req, conn, txnUsers, user, resp, served, seen>>

\* conn.commit() at line 75, the 200 answer, then the finally clause.
CommitStats(p) ==
    /\ pc[p] = "stats_inserted"
    /\ game_stats' = game_stats \cup txnStats[p]
    /\ Finish(p, Success(CHOOSE u \in user[p] : TRUE), "closed")
    /\ UNCHANGED <<users, users_id_seq, req, user, served, seen>>

\* login: the SELECT, fetchone, 401 or 200, then the finally clause.
Login(p) ==
    /\ pc[p] = "try"
    /\ req[p].action = "login"
    /\ LET rows == LoginRows(req[p].username, req[p].password) IN
        \/ /\ rows = {}
           /\ user' = [user EXCEPT ![p] = {}]
           /\ Finish(p, Unauthorized, "closed")
        \/ \E row \in rows :
            /\ user' = [user EXCEPT ![p] = {row}]
            /\ Finish(p, Success(row), "closed")
    /\ seen' = [seen EXCEPT ![p] = {store}]
    /\ UNCHANGED <<users, game_stats, users_id_seq, req, served>>
\* a profile request that creates the stats row it finds missing
ProfileCreatingStats(p) ==
    /\ pc[p] = "try"
    /\ req[p].action = "profile"
    /\ LET rows == ProfileRows(req[p].userId) IN
        \/ /\ rows = {}
           /\ user' = [user EXCEPT ![p] = {}]
           /\ Finish(p, NotFound, "closed")
           /\ game_stats' = game_stats
        \/ \E row \in rows :
            /\ user' = [user EXCEPT ![p] = {row}]
            /\ Finish(p, Success(row), "closed")
            /\ game_stats' = IF row.kills = {} THEN game_stats \cup {NewStatsRow(row.id)}
                             ELSE game_stats
    /\ seen' = [seen EXCEPT ![p] = {store}]
    /\ UNCHANGED <<users, users_id_seq, req, served>>

\* profile: the SELECT over the left join, fetchone, 404 or 200, finally.
Profile(p) ==
    /\ pc[p] = "try"
    /\ req[p].action = "profile"
    /\ LET rows == ProfileRows(req[p].userId) IN
        \/ /\ rows = {}
           /\ user' = [user EXCEPT ![p] = {}]
           /\ Finish(p, NotFound, "closed")
        \/ \E row \in rows :
            /\ user' = [user EXCEPT ![p] = {row}]
            /\ Finish(p, Success(row), "closed")
    /\ seen' = [seen EXCEPT ![p] = {store}]
    /\ UNCHANGED <<users, game_stats, users_id_seq, req, served>>

\* A statement or a commit raises an error other than UniqueViolation (the
\* server went away, a constraint of game_stats is violated, ...): no except
\* clause matches, the finally clause closes cursor and connection, which
\* discards the open transaction, and the exception leaves the handler.
StatementFails(p) ==
    /\ pc[p] \in {"try", "inserted", "committed", "stats_inserted"}
    /\ Finish(p, Raised("OperationalError"), "closed")
    /\ UNCHANGED <<users, game_stats, users_id_seq, req, user, served, seen>>

\* The platform has the answer; the worker is free for its next invocation.
Return(p) ==
    /\ pc[p] = "done"
    /\ pc' = [pc EXCEPT ![p] = "idle"]
    /\ req' = [req EXCEPT ![p] = NoRequest]
    /\ conn' = [conn EXCEPT ![p] = "none"]
    /\ user' = [user EXCEPT ![p] = {}]
    /\ resp' = [resp EXCEPT ![p] = NoResponse]
    /\ seen' = [seen EXCEPT ![p] = {}]
    /\ UNCHANGED <<users, game_stats, users_id_seq, txnUsers, txnStats, served>>

\* The handler with a database that answers every call.
Next ==
    \E p \in Workers :
        \/ Options(p)
        \/ NotPost(p)
        \/ BodyError(p)
        \/ Validation(p)
        \/ UnknownAction(p)
        \/ Begin(p)
        \/ InsertUser(p)
        \/ InsertUserConflict(p)
        \/ CommitUser(p)
        \/ InsertStats(p)
        \/ CommitStats(p)
        \/ Login(p)
        \/ Profile(p)
        \/ Return(p)

\* The handler with a database whose calls may fail.
NextFault ==
    \/ Next
    \/ \E p \in Workers :
        \/ ConnectFails(p)
        \/ CursorFails(p)
        \/ StatementFails(p)

Spec == Init /\ [][Next]_vars

FaultSpec == Init /\ [][NextFault]_vars

\* ------------------------------------------------------------ observations
Returned(p, status) == resp[p].kind = "returned" /\ resp[p].statusCode = status

ValidPair(r) == r.username \notin {None, ""} /\ r.password \notin {None, ""}

\* worker p takes a step of its invocation
Steps(p) == pc'[p] # pc[p]

\* C1.  A register of a non-empty pair that finds no account with its
\* username inserts one, and from there on can only end with the 200 answer
\* that carries this username, balance 1000 and the identifier of the account
\* it left in the store; accounts are never removed; and a login that runs
\* while a worker holds the 200 answer of a register with the same username
\* and password answers 200 with the identifier of that answer.
RegisterThenLogin ==
    [][\A p \in Workers :
        /\ (/\ pc[p] = "try" /\ req[p].action = "register" /\ ValidPair(req[p])
            /\ Steps(p)
            /\ \A row \in users : row.username # req[p].username)
           => pc'[p] = "inserted"
        /\ (/\ pc[p] \in {"inserted", "committed", "stats_inserted"}
            /\ pc'[p] = "done")
           => /\ resp'[p].kind = "returned" /\ resp'[p].statusCode = 200
              /\ resp'[p].body.user.username = req[p].username
              /\ resp'[p].body.user.balance = 1000
              /\ \E row \in users' :
                    /\ row.id = resp'[p].body.user.id
                    /\ row.username = req[p].username
        /\ users \subseteq users'
        /\ (pc[p] = "try" /\ req[p].action = "login" /\ Steps(p))
           => \A q \in Workers \ {p} :
                (/\ pc[q] = "done" /\ req[q].action = "register" /\ Returned(q, 200)
                 /\ req[q].username = req[p].username
                 /\ req[q].password = req[p].password)
                => /\ resp'[p].kind = "returned" /\ resp'[p].statusCode = 200
                   /\ resp'[p].body.user.id = resp[q].body.user.id
    ]_vars

\* a login answered 200 with the identifier a finished register returned
RegisterThenLoginWitness ==
    \E p, q \in Workers :
        /\ pc[p] = "done" /\ req[p].action = "login" /\ Returned(p, 200)
        /\ pc[q] = "done" /\ req[q].action = "register" /\ Returned(q, 200)
        /\ req[q].username = req[p].username /\ req[q].password = req[p].password
        /\ resp[p].body.user.id = resp[q].body.user.id
        /\ resp[q].body.user.balance = 1000

\* C2.  A register whose username is held by an account answers 409 and
\* leaves both tables as they were; the worker that got the 409 has fetched no
\* row and holds no uncommitted row.
RegisterConflictAtomic ==
    /\ [][\A p \in Workers :
            (/\ pc[p] = "try" /\ req[p].action = "register" /\ Steps(p)
             /\ \E row \in users : row.username = req[p].username)
            => /\ resp'[p] = Conflict
               /\ users' = users
               /\ game_stats' = game_stats
       ]_vars
    /\ [](\A p \in Workers :
            Returned(p, 409) => user[p] = {} /\ txnUsers[p] = {} /\ txnStats[p] = {})

\* a register of a taken username has been answered 409
RegisterConflictWitness ==
    \E p \in Workers :
        /\ pc[p] = "done" /\ req[p].action = "register" /\ Returned(p, 409)
        /\ \E row \in users : row.username = req[p].username

\* C3.  In every committed state every account has exactly one stats row.
EveryAccountHasOneStats ==
    \A u \in users : Cardinality({g \in game_stats : g.user_id = u.id}) = 1

\* C4.  A register that raises after its account insert succeeded leaves no
\* account with the identifier it was given.
NoOrphanAfterStatsFailure ==
    \A p \in Workers :
        (/\ pc[p] = "done" /\ req[p].action = "register"
         /\ resp[p].kind = "raised" /\ user[p] # {})
        => \A u \in user[p] : \A row \in users : row.id # u.id

\* C6.  No invocation ends with its connection open.
ConnectionReleased ==
    \A p \in Workers : pc[p] = "done" => conn[p] # "open"

\* C5.  A login of a non-empty pair that no account matches on both username
\* and password digest answers 401, and every 401 a login gets is the same
\* answer, whether its username belongs to an account or to none.
LoginUnauthorized ==
    /\ [][\A p \in Workers :
            (/\ pc[p] = "try" /\ req[p].action = "login" /\ ValidPair(req[p])
             /\ Steps(p)
             /\ \A row \in users :
                    ~(/\ row.username = req[p].username
                      /\ row.password = hash_password(req[p].password)))
            => resp'[p] = Unauthorized /\ resp'[p].statusCode = 401
       ]_vars
    /\ [](\A p, q \in Workers :
            (/\ req[p].action = "login" /\ Returned(p, 401)
             /\ req[q].action = "login" /\ Returned(q, 401))
            => resp[p] = resp[q])

\* two logins answered 401: a wrong password for an account, and a username
\* of no account
LoginUnauthorizedWitness ==
    \E p, q \in Workers :
        /\ pc[p] = "done" /\ req[p].action = "login" /\ Returned(p, 401)
        /\ \E row \in users : row.username = req[p].username
        /\ pc[q] = "done" /\ req[q].action = "login" /\ Returned(q, 401)
        /\ \A row \in users : row.username # req[q].username
        /\ resp[p] = resp[q]

\* C7.  A register or login whose username or password is missing or empty
\* answers 400 without reaching a statement: the tables, the sequence and the
\* worker's read record are as before.
MissingCredentialsRejected ==
    [][\A p \in Workers :
        (/\ pc[p] = "idle" /\ Steps(p)
         /\ req'[p].method = "POST" /\ req'[p].json
         /\ req'[p].action \in {"register", "login"}
         /\ req'[p].username \in {None, ""} \/ req'[p].password \in {None, ""})
        => /\ resp'[p] = BadRequest /\ resp'[p].statusCode = 400
           /\ pc'[p] = "done"
           /\ users' = users /\ game_stats' = game_stats
           /\ users_id_seq' = users_id_seq
           /\ txnUsers'[p] = {} /\ txnStats'[p] = {} /\ seen'[p] = {}
    ]_vars

\* a register with an empty password and a login with a missing username,
\* both answered 400
MissingCredentialsWitness ==
    \E p, q \in Workers :
        /\ pc[p] = "done" /\ req[p].action = "register" /\ req[p].password = ""
        /\ req[p].username \in Names /\ Returned(p, 400)
        /\ pc[q] = "done" /\ req[q].action = "login" /\ req[q].username = None
        /\ Returned(q, 400)

\* C8.  A profile request whose userId is the identifier of no account (a
\* missing userId among them) answers 404; one whose userId is the identifier
\* of an account answers 200 with that account's id, username and balance.
ProfileFoundOrNot ==
    [][\A p \in Workers :
        (pc[p] = "try" /\ req[p].action = "profile" /\ Steps(p))
        => LET accounts == {u \in users : u.id \in req[p].userId} IN
            /\ accounts = {} => resp'[p] = NotFound /\ resp'[p].statusCode = 404
            /\ \A u \in accounts :
                /\ resp'[p].kind = "returned" /\ resp'[p].statusCode = 200
                /\ resp'[p].body.user.id = u.id
                /\ resp'[p].body.user.username = u.username
                /\ resp'[p].body.user.balance = u.balance
    ]_vars

\* a profile request without userId answered 404 and one answered 200
ProfileFoundOrNotWitness ==
    \E p, q \in Workers :
        /\ pc[p] = "done" /\ req[p].action = "profile" /\ req[p].userId = {}
        /\ Returned(p, 404)
        /\ pc[q] = "done" /\ req[q].action = "profile" /\ Returned(q, 200)
        /\ \E u \in users : u.id = resp[q].body.user.id

\* the workers whose invocation registers username u
Registering(u) ==
    {p \in Workers : pc[p] # "idle" /\ req[p].action = "register"
                     /\ req[p].username = u /\ ValidPair(req[p])}

\* every account with username u was inserted by one of the registers of u
\* that the workers hold: u was free when they started
FreshFor(u) ==
    \A row \in users :
        row.username = u => \E p \in Registering(u) : \E x \in user[p] : x.id = row.id

\* C9.  No two accounts share a username; no two workers hold a 200 answer to
\* a register of the same username; and when the only requests served so far
\* are two or more registers of one username that was free, and all have
\* ended, exactly one of them was answered 200, the others 409, and one
\* account has the username.
OneRegistrationWins ==
    /\ \A r1, r2 \in users : r1.username = r2.username => r1 = r2
    /\ \A p, q \in Workers :
        (/\ p # q /\ p \in Registering(req[p].username)
         /\ q \in Registering(req[p].username)
         /\ Returned(p, 200))
        => ~Returned(q, 200)
    /\ \A u \in Names :
        (/\ Cardinality(Registering(u)) >= 2
         /\ served = Cardinality(Registering(u))
         /\ FreshFor(u)
         /\ \A p \in Registering(u) : pc[p] = "done")
        => /\ Cardinality({p \in Registering(u) : Returned(p, 200)}) = 1
           /\ \A p \in Registering(u) : Returned(p, 200) \/ resp[p] = Conflict
           /\ Cardinality({row \in users : row.username = u}) = 1

\* two concurrent registers of a fresh username have ended, one with 200 and
\* one with 409
OneRegistrationWinsWitness ==
    \E p, q \in Workers :
        /\ served = 2 /\ FreshFor(req[p].username)
        /\ pc[p] = "done" /\ req[p].action = "register" /\ Returned(p, 200)
        /\ pc[q] = "done" /\ req[q].action = "register" /\ Returned(q, 409)
        /\ req[p].username = req[q].username

\* C10.  No step of a login or of a profile request changes a table, and two
\* profile requests for the same userId that read the same tables hold the
\* same answer.
ReadsLeaveStore ==
    /\ [][\A p \in Workers :
            (/\ Steps(p)
             /\ \/ req[p].action \in {"login", "profile"}
                \/ req'[p].action \in {"login", "profile"})
            => users' = users /\ game_stats' = game_stats
       ]_vars
    /\ [](\A p, q \in Workers :
            (/\ pc[p] = "done" /\ req[p].action = "profile"
             /\ pc[q] = "done" /\ req[q].action = "profile"
             /\ req[p].userId = req[q].userId
             /\ seen[p] # {} /\ seen[p] = seen[q])
            => resp[p] = resp[q])

\* the profile of an account was read twice with nothing written in between
ReadsLeaveStoreWitness ==
    \E p, q \in Workers :
        /\ p # q
        /\ pc[p] = "done" /\ req[p].action = "profile" /\ Returned(p, 200)
        /\ pc[q] = "done" /\ req[q].action = "profile" /\ Returned(q, 200)
        /\ req[p].userId = req[q].userId
        /\ seen[p] = {store} /\ seen[q] = {store}
        /\ resp[p] = resp[q]
====
